---- MODULE Spec2Model ----
(***************************************************************************)
(* Temporal-consistency validation of mlcast datasets                      *)
(* (mlcast_dataset_validator/checks/coords/temporal.py).                   *)
(*                                                                         *)
(* Instants are integers counted in ticks of the time resolution (the      *)
(* code's datetime64[ns] values); a timedelta is a difference of instants. *)
(* A ValidationReport is the sequence of its records, in the order of the  *)
(* report.add calls; `+=` on reports is concatenation.                     *)
(***************************************************************************)
EXTENDS Integers, Sequences, FiniteSets

\* ------------------------------------------------------------------ bounds
\* Instants of the model are 0..MaxT.
MaxT == 5
\* A declared missing_times variable holds at most MaxMissing instants.
MaxMissing == 2
\* Time coordinates that are not strictly increasing have at most
\* MaxUnsortedLen instants, drawn from 0..MaxUnsortedT.
MaxUnsortedLen == 3
MaxUnsortedT == 1
\* Ticks in one day (pandas Timedelta.days floors to whole days).
TicksPerDay == 2

VARIABLES
    ds,        \* the dataset: time coordinate, missing_times variable, attrs
    call,      \* the call that was made on ds and its arguments
    report,    \* the ValidationReport the call returned
    metadata,  \* the report of _check_missing_times_metadata, if it ran
    irregular, \* the report of _check_missing_times_irregular_period, if it ran
    regular,   \* the report of _check_missing_times_regular_period, if it ran
    split,     \* the segments _check_missing_times_metadata passed to them
    raised,    \* whether the call ended in an exception instead of a report
    heap,      \* the dataset objects alive, by memory address
    cache,     \* _TIMESTEP_CACHE
    next_oid,  \* how many dataset objects were constructed so far
    last       \* the last call of analyze_dataset_timesteps and what it returned

\* The state of a validation call, and the state of the timestep analyzer.
temporalVars == <<ds, call, report, metadata, irregular, regular, split, raised>>

analyzerVars == <<heap, cache, next_oid, last>>

vars == <<temporalVars, analyzerVars>>

\* ------------------------------------------------------------- the report
\* report.add(SECTION_ID, name, status, detail): the record that is appended.
\* The detail keeps the fixed part of the message.
Rec(name, status, detail) == [name |-> name, status |-> status, detail |-> detail]

\* ValidationReport.has_fails()
HasFails(r) == \E i \in 1..Len(r) : r[i].status = "FAIL"

\* ValidationReport.has_warnings()
HasWarnings(r) == \E i \in 1..Len(r) : r[i].status = "WARNING"

\* A sub-check that did not run, and one that ran and returned r.
NotRun == [ran |-> FALSE, records |-> <<>>]
Ran(r) == [ran |-> TRUE, records |-> r]

\* ------------------------------------------------------------ array helpers
Instants == 0..MaxT

Range(s) == {s[i] : i \in 1..Len(s)}

\* DataArray.diff("time"): the consecutive differences.
Diff(s) == [i \in 1..(Len(s) - 1) |-> s[i + 1] - s[i]]

\* DataArray.min().item() of a non-empty array.
Min(s) == CHOOSE x \in Range(s) : \A y \in Range(s) : x <= y

\* The sorted sequence of a finite set of integers.
RECURSIVE SortedSeq(_)
SortedSeq(S) ==
    IF S = {} THEN <<>>
    ELSE LET m == CHOOSE x \in S : \A y \in S : x <= y
         IN <<m>> \o SortedSeq(S \ {m})

\* pd.date_range(start, end, freq).values: start, start+freq, ... while <= end.
DateRange(start, end, freq) ==
    IF end < start THEN <<>>
    ELSE [k \in 1..(((end - start) \div freq) + 1) |-> start + (k - 1) * freq]

\* Mutant of SetDiff1d: the operands swapped.
SetDiff1d_Swapped(a, b) == Range(b) \ Range(a)

\* np.setdiff1d(a, b): the values of a that are not in b.
SetDiff1d(a, b) == Range(a) \ Range(b)

\* Mutant of Intersect1d: only the first time value is compared.
Intersect1d_FirstOnly(a, S) == IF Len(a) = 0 THEN {} ELSE {a[1]} \cap S

\* np.intersect1d(time_values, missing_values)
Intersect1d(a, S) == Range(a) \cap S

\* ------------------------------------------------------------- the dataset
\* ds["missing_times"]: no such variable, a variable of another dtype, or a
\* datetime64 array (its set of instants).
NoMissingTimes == [kind |-> "none"]
OtherDtype == [kind |-> "other"]
Datetime64(S) == [kind |-> "datetime64", values |-> S]

\* ds.attrs.get("consistent_timestep_start"): None, a value pd.to_datetime
\* parses to an instant, or a value it raises on.
NoAttr == [kind |-> "none"]
Unparseable == [kind |-> "unparseable"]
InstantAttr(c) == [kind |-> "instant", at |-> c]

\* ds.coords["time"]: absent, or the array of its instants.
NoCoord == [present |-> FALSE, values |-> <<>>]
Coord(s) == [present |-> TRUE, values |-> s]

\* Mutant of None: an absent variable handed on as an empty array.
None_AsEmptyArray == [none |-> FALSE, values |-> {}]

\* missing_values as the segment checks receive it: None or an array.
None == [none |-> TRUE, values |-> {}]
\* Mutant of Some: a declared array handed on as None.
Some_AsNone(S) == None

Some(S) == [none |-> FALSE, values |-> S]

\* ---------------------------------------- _check_missing_times_irregular_period
\* Mutants of IsMonotonicDecreasing: a strict comparison, and the comparison
\* turned round.
IsMonotonicDecreasing_Strict(d) == \A i \in 1..(Len(d) - 1) : d[i + 1] < d[i]

IsMonotonicDecreasing_Increasing(d) == \A i \in 1..(Len(d) - 1) : d[i + 1] >= d[i]

\* np.all(pre_diff_values[1:] <= pre_diff_values[:-1])
IsMonotonicDecreasing(d) == \A i \in 1..(Len(d) - 1) : d[i + 1] <= d[i]

\* missing_values[(missing_values >= expected_pre[0]) & (missing_values <= expected_pre[-1])]
MissingPreRange(mv, expected_pre) ==
    {m \in mv : m >= expected_pre[1] /\ m <= expected_pre[Len(expected_pre)]}

\* Mutant of IrregularWarns: the declared instants are matched against the
\* gap instants instead of being counted.
IrregularWarns_ByGap(missing_pre, missing_pre_range) ==
    missing_pre # {} /\ missing_pre \cap missing_pre_range = {}

\* The condition of the WARNING: missing_pre.size and missing_pre_range.size == 0
IrregularWarns(missing_pre, missing_pre_range) ==
    missing_pre # {} /\ missing_pre_range = {}

CheckMissingTimesIrregularPeriod(da_time_coord, missing_values) ==
    IF Len(da_time_coord) < 2 THEN <<>>
    ELSE LET da_pre_diffs == Diff(da_time_coord) IN
    IF Len(da_pre_diffs) < 2 THEN <<>>
    ELSE IF IsMonotonicDecreasing(da_pre_diffs) THEN <<>>
    ELSE IF missing_values.none
    THEN <<Rec("Missing times metadata", "FAIL",
               "Missing 'missing_times' variable for irregular period")>>
    ELSE LET pre_interval == Min(da_pre_diffs)
             expected_pre == DateRange(da_time_coord[1],
                                       da_time_coord[Len(da_time_coord)],
                                       pre_interval)
             missing_pre == SetDiff1d(expected_pre, da_time_coord)
             missing_pre_range == MissingPreRange(missing_values.values, expected_pre)
         IN IF IrregularWarns(missing_pre, missing_pre_range)
            THEN <<Rec("Missing times metadata", "WARNING",
                       "Irregular timesteps do not monotonically decrease and missing_times are not provided to resolve them")>>
            ELSE <<>>

\* ------------------------------------------ _check_missing_times_regular_period
\* Mutant of HasSeveralIntervals: the threshold off by one.
HasSeveralIntervals_MoreThanTwo(d) == Cardinality(Range(d)) > 2

\* len(np.unique(da_diffs.values)) > 1
HasSeveralIntervals(d) == Cardinality(Range(d)) > 1

\* Mutant of MissingUnlisted: the declared instants must be the inferred ones.
MissingUnlisted_Symmetric(missing_inferred, mv) ==
    (missing_inferred \ mv) \cup (mv \ missing_inferred)

\* Mutant of MissingUnlisted: the set difference turned round.
MissingUnlisted_Swapped(missing_inferred, mv) == mv \ missing_inferred

\* missing_inferred_set - missing_values_set
MissingUnlisted(missing_inferred, mv) == missing_inferred \ mv

\* Mutant of CheckMissingTimesRegularPeriod: too few instants are reported as
\* a FAIL.
CheckMissingTimesRegularPeriod_ShortFails(da_time_coord, missing_values) ==
    IF Len(da_time_coord) < 2
    THEN <<Rec("Missing times metadata", "FAIL",
               "Not enough regular timestamps to infer missing times")>>
    ELSE LET da_diffs == Diff(da_time_coord) IN
    IF missing_values.none
    THEN IF HasSeveralIntervals(da_diffs)
         THEN <<Rec("Missing times metadata", "FAIL",
                    "Missing 'missing_times' variable for regular period")>>
         ELSE <<>>
    ELSE LET expected_values == DateRange(da_time_coord[1],
                                          da_time_coord[Len(da_time_coord)],
                                          Min(da_diffs))
             missing_inferred == SetDiff1d(expected_values, da_time_coord)
         IN IF missing_inferred = {}
            THEN <<Rec("Missing times metadata", "PASS",
                       "No missing timestamps inferred in the regular period")>>
            ELSE IF MissingUnlisted(missing_inferred, missing_values.values) # {}
            THEN <<Rec("Missing times metadata", "FAIL",
                       "Inferred missing timestamps are not listed in 'missing_times'")>>
            ELSE <<Rec("Missing times metadata", "PASS",
                       "All inferred missing timestamps are listed in 'missing_times'")>>

CheckMissingTimesRegularPeriod(da_time_coord, missing_values) ==
    IF Len(da_time_coord) < 2
    THEN <<Rec("Missing times metadata", "WARNING",
               "Not enough regular timestamps to infer missing times")>>
    ELSE LET da_diffs == Diff(da_time_coord) IN
    IF Len(da_diffs) = 0
    THEN <<Rec("Missing times metadata", "WARNING",
               "Unable to infer timestep from regular timestamps")>>
    ELSE IF missing_values.none
    THEN IF HasSeveralIntervals(da_diffs)
         THEN <<Rec("Missing times metadata", "FAIL",
                    "Missing 'missing_times' variable for regular period")>>
         ELSE <<>>
    ELSE LET expected_interval == Min(da_diffs)
             expected_values == DateRange(da_time_coord[1],
                                          da_time_coord[Len(da_time_coord)],
                                          expected_interval)
             missing_inferred == SetDiff1d(expected_values, da_time_coord)
         IN IF missing_inferred = {}
            THEN <<Rec("Missing times metadata", "PASS",
                       "No missing timestamps inferred in the regular period")>>
            ELSE IF MissingUnlisted(missing_inferred, missing_values.values) # {}
            THEN <<Rec("Missing times metadata", "FAIL",
                       "Inferred missing timestamps are not listed in 'missing_times'")>>
            ELSE <<Rec("Missing times metadata", "PASS",
                       "All inferred missing timestamps are listed in 'missing_times'")>>

\* ---------------------------------------------------------------- exceptions
\* Mutant of Uncaught: the handler does not match the exception.
Uncaught_NotHandled(exception_raised) == exception_raised

\* try: ... except Exception as e: report.add(...); return report
\* Whether an exception raised in the try block leaves the function: the
\* handler takes every Exception, so none does.
Uncaught(exception_raised) == exception_raised /\ FALSE

\* ------------------------------------------------ _check_missing_times_metadata
\* Mutant of ToDatetime: an unparseable value is coerced instead of raising.
ToDatetime_Coerce(raw) ==
    IF raw.kind = "instant" THEN [raised |-> FALSE, value |-> raw.at]
    ELSE [raised |-> FALSE, value |-> 0]

\* pd.to_datetime(consistent_start_raw): the instant, or an exception.
ToDatetime(raw) ==
    IF raw.kind = "instant" THEN [raised |-> FALSE, value |-> raw.at]
    ELSE [raised |-> TRUE, value |-> 0]

\* The smallest timedelta: np.timedelta64(1, "ns"), one tick.
Resolution == 1

\* da_time_coord.sel(time=slice(None, irregular_end))
SelUpTo(da_time_coord, irregular_end) ==
    LET keep(t) == t <= irregular_end IN SelectSeq(da_time_coord, keep)

\* Mutants of SelFrom: the instant at the cutover is left out, and the slice
\* is not applied.
SelFrom_After(da_time_coord, t_regular_start) ==
    LET keep(t) == t > t_regular_start IN SelectSeq(da_time_coord, keep)

SelFrom_WholeSeries(da_time_coord, t_regular_start) == da_time_coord

\* da_time_coord.sel(time=slice(t_regular_start, None))
SelFrom(da_time_coord, t_regular_start) ==
    LET keep(t) == t >= t_regular_start IN SelectSeq(da_time_coord, keep)

\* missing_values[missing_values < t_regular_start]
MissingBefore(missing_values, t_regular_start) ==
    {m \in missing_values : m < t_regular_start}

\* missing_values[missing_values >= t_regular_start]
MissingFrom(missing_values, t_regular_start) ==
    {m \in missing_values : m >= t_regular_start}

\* Mutant of CutoverConsulted: the policy flag is not looked at.
CutoverConsulted_IgnoresPolicy(d, allow_variable_timestep) ==
    d.consistent_timestep_start.kind # "none"

\* allow_variable_timestep and consistent_start_raw is not None
CutoverConsulted(d, allow_variable_timestep) ==
    allow_variable_timestep /\ d.consistent_timestep_start.kind # "none"

\* The segments when the function got past its short-circuiting checks.
NoSplit == [reached |-> FALSE]
Segments(cut, t0, irr, reg, mirr, mreg) ==
    [reached |-> TRUE, cutover |-> cut, t_regular_start |-> t0,
     da_time_irregular |-> irr, da_time_regular |-> reg,
     missing_values_irregular |-> mirr, missing_values_regular |-> mreg]

\* What the function returns and what it ran on the way.
Outcome(r, irr, reg, sp) ==
    [report |-> r, irregular |-> irr, regular |-> reg, split |-> sp]

\* Mutant of ReconcileSegments: the closing PASS does not look at whether a
\* missing_times variable exists.
ReconcileSegments_WhateverMissingTimes(cut, t0, irr, reg, mirr, mreg, missing_times_present) ==
    LET r_irr == IF cut THEN Ran(CheckMissingTimesIrregularPeriod(irr, mirr))
                 ELSE NotRun
        r_reg == Ran(CheckMissingTimesRegularPeriod(reg, mreg))
        r == r_irr.records \o r_reg.records
        final == IF ~HasFails(r)
                 THEN Append(r, Rec("Missing times metadata", "PASS",
                                    "Regular timesteps detected; 'missing_times' not required"))
                 ELSE r
    IN Outcome(final, r_irr, r_reg, Segments(cut, t0, irr, reg, mirr, mreg))

\* The tail of the function, once the missing values are split (lines 173-189).
ReconcileSegments(cut, t0, irr, reg, mirr, mreg, missing_times_present) ==
    LET r_irr == IF cut THEN Ran(CheckMissingTimesIrregularPeriod(irr, mirr))
                 ELSE NotRun
        r_reg == Ran(CheckMissingTimesRegularPeriod(reg, mreg))
        r == r_irr.records \o r_reg.records
        final == IF ~missing_times_present /\ ~HasFails(r)
                 THEN Append(r, Rec("Missing times metadata", "PASS",
                                    "Regular timesteps detected; 'missing_times' not required"))
                 ELSE r
    IN Outcome(final, r_irr, r_reg, Segments(cut, t0, irr, reg, mirr, mreg))

\* Mutant of CheckMissingTimesMetadata: the dtype check and the overlap check
\* of missing_times come before the parse of the cutover attribute.
CheckMissingTimesMetadata_MissingTimesFirst(d, da_time_coord, allow_variable_timestep) ==
    LET consulted == CutoverConsulted(d, allow_variable_timestep)
        parsed == ToDatetime(d.consistent_timestep_start)
        missing_times_present == d.missing_times.kind # "none"
        missing_values == d.missing_times.values
        cut == consulted
        t_regular_start == IF cut THEN parsed.value ELSE 0
        da_time_irregular == IF cut THEN SelUpTo(da_time_coord, t_regular_start - Resolution)
                             ELSE <<>>
        da_time_regular == IF cut THEN SelFrom(da_time_coord, t_regular_start)
                           ELSE da_time_coord
    IN
    IF missing_times_present /\ d.missing_times.kind # "datetime64"
    THEN Outcome(<<Rec("Missing times metadata", "FAIL",
                       "'missing_times' must contain datetime64 values")>>,
                 NotRun, NotRun, NoSplit)
    ELSE IF missing_times_present /\ Intersect1d(da_time_coord, missing_values) # {}
    THEN Outcome(<<Rec("Missing times metadata", "FAIL",
                       "'missing_times' values must not appear in the main time coordinate")>>,
                 NotRun, NotRun, NoSplit)
    ELSE IF consulted /\ parsed.raised
    THEN Outcome(<<Rec("Missing times metadata", "FAIL",
                       "Failed to parse 'consistent_timestep_start'")>>,
                 NotRun, NotRun, NoSplit)
    ELSE IF ~missing_times_present
    THEN ReconcileSegments(cut, t_regular_start, da_time_irregular,
                           da_time_regular, None, None, FALSE)
    ELSE IF ~cut
    THEN ReconcileSegments(cut, t_regular_start, da_time_irregular,
                           da_time_regular, None, Some(missing_values), TRUE)
    ELSE ReconcileSegments(cut, t_regular_start, da_time_irregular,
                           da_time_regular,
                           Some(MissingBefore(missing_values, t_regular_start)),
                           Some(MissingFrom(missing_values, t_regular_start)),
                           TRUE)

CheckMissingTimesMetadata(d, da_time_coord, allow_variable_timestep) ==
    LET consulted == CutoverConsulted(d, allow_variable_timestep)
        parsed == ToDatetime(d.consistent_timestep_start)
    IN
    IF consulted /\ parsed.raised
    THEN Outcome(<<Rec("Missing times metadata", "FAIL",
                       "Failed to parse 'consistent_timestep_start'")>>,
                 NotRun, NotRun, NoSplit)
    ELSE
    LET cut == consulted
        t_regular_start == IF cut THEN parsed.value ELSE 0
        irregular_end == t_regular_start - Resolution
        da_time_irregular == IF cut THEN SelUpTo(da_time_coord, irregular_end)
                             ELSE <<>>
        da_time_regular == IF cut THEN SelFrom(da_time_coord, t_regular_start)
                           ELSE da_time_coord
        missing_times_present == d.missing_times.kind # "none"
    IN
    IF ~missing_times_present
    THEN ReconcileSegments(cut, t_regular_start, da_time_irregular,
                           da_time_regular, None, None, FALSE)
    ELSE IF d.missing_times.kind # "datetime64"
    THEN Outcome(<<Rec("Missing times metadata", "FAIL",
                       "'missing_times' must contain datetime64 values")>>,
                 NotRun, NotRun, NoSplit)
    ELSE
    LET missing_values == d.missing_times.values
        overlap == Intersect1d(da_time_coord, missing_values)
    IN
    IF overlap # {}
    THEN Outcome(<<Rec("Missing times metadata", "FAIL",
                       "'missing_times' values must not appear in the main time coordinate")>>,
                 NotRun, NotRun, NoSplit)
    ELSE IF ~cut
    THEN ReconcileSegments(cut, t_regular_start, da_time_irregular,
                           da_time_regular, None, Some(missing_values), TRUE)
    ELSE ReconcileSegments(cut, t_regular_start, da_time_irregular,
                           da_time_regular,
                           Some(MissingBefore(missing_values, t_regular_start)),
                           Some(MissingFrom(missing_values, t_regular_start)),
                           TRUE)

\* Whether _check_missing_times_metadata ends in an exception: the only
\* raising call is pd.to_datetime, inside the try block of lines 114-123.
CheckMissingTimesMetadataRaises(d, allow_variable_timestep) ==
    Uncaught(CutoverConsulted(d, allow_variable_timestep)
             /\ ToDatetime(d.consistent_timestep_start).raised)

\* -------------------------------------------------- check_temporal_requirements
\* Mutant of AllPositive: a repeated instant is let through.
AllPositive_NonNegative(da_time_diffs) ==
    \A i \in 1..Len(da_time_diffs) : da_time_diffs[i] >= 0

\* np.all(da_time_diffs.values > np.timedelta64(0, "ns"))
AllPositive(da_time_diffs) ==
    \A i \in 1..Len(da_time_diffs) : da_time_diffs[i] > 0

\* time_range.days: the whole days of a timedelta (floor).
Days(time_range) == time_range \div TicksPerDay

\* Mutant of CoverageMet: a year of 365 days.
CoverageMet_Year365(days, min_years) == days >= 365 * min_years

\* years >= min_years with years = days / 365.25, i.e. 4*days >= 1461*min_years.
CoverageMet(days, min_years) == 4 * days >= 1461 * min_years

\* What the entry point returns and what it ran on the way.
Result(r, m) ==
    [report |-> r, metadata |-> m]

\* Mutant of CoverageThenMetadata: the handler of the coverage block does not
\* return, so the reconciler is still called.
CoverageThenMetadata_NoReturn(d, min_years, allow_variable_timestep) ==
    LET t == d.time.values
        out == CheckMissingTimesMetadata(d, t, allow_variable_timestep)
        coverage ==
            IF Len(t) = 0
            THEN Rec("Temporal coverage analysis", "FAIL",
                     "Failed to analyze temporal coverage")
            ELSE IF CoverageMet(Days(t[Len(t)] - t[1]), min_years)
            THEN Rec("Minimum 3-year coverage", "PASS", "Temporal coverage")
            ELSE Rec("Minimum 3-year coverage", "FAIL", "Temporal coverage")
    IN Result(<<coverage>> \o out.report, [ran |-> TRUE, out |-> out])

\* Mutant of CoverageThenMetadata: a coverage FAIL returns at once.
CoverageThenMetadata_FailStops(d, min_years, allow_variable_timestep) ==
    LET t == d.time.values
        skipped == [ran |-> FALSE, out |-> Outcome(<<>>, NotRun, NotRun, NoSplit)]
        out == CheckMissingTimesMetadata(d, t, allow_variable_timestep)
    IN
    IF Len(t) = 0
    THEN Result(<<Rec("Temporal coverage analysis", "FAIL",
                      "Failed to analyze temporal coverage")>>, skipped)
    ELSE IF ~CoverageMet(Days(t[Len(t)] - t[1]), min_years)
    THEN Result(<<Rec("Minimum 3-year coverage", "FAIL", "Temporal coverage")>>, skipped)
    ELSE Result(<<Rec("Minimum 3-year coverage", "PASS", "Temporal coverage")>>
                \o out.report, [ran |-> TRUE, out |-> out])

\* The coverage block and the delegation (lines 56-84) on a present,
\* strictly increasing time coordinate.
CoverageThenMetadata(d, min_years, allow_variable_timestep) ==
    LET t == d.time.values IN
    IF Len(t) = 0
    THEN \* time_coord[-1] raises IndexError on an empty index
         Result(<<Rec("Temporal coverage analysis", "FAIL",
                      "Failed to analyze temporal coverage")>>,
                [ran |-> FALSE, out |-> Outcome(<<>>, NotRun, NotRun, NoSplit)])
    ELSE
    LET time_range == t[Len(t)] - t[1]
        coverage == IF CoverageMet(Days(time_range), min_years)
                    THEN Rec("Minimum 3-year coverage", "PASS", "Temporal coverage")
                    ELSE Rec("Minimum 3-year coverage", "FAIL", "Temporal coverage")
        out == CheckMissingTimesMetadata(d, t, allow_variable_timestep)
    IN Result(<<coverage>> \o out.report, [ran |-> TRUE, out |-> out])

CheckTemporalRequirements(d, min_years, allow_variable_timestep) ==
    LET skipped == [ran |-> FALSE, out |-> Outcome(<<>>, NotRun, NotRun, NoSplit)] IN
    IF ~d.time.present
    THEN Result(<<Rec("Time coordinate presence", "FAIL",
                      "Missing 'time' coordinate")>>, skipped)
    ELSE IF Len(d.time.values) >= 2 /\ ~AllPositive(Diff(d.time.values))
    THEN Result(<<Rec("Time coordinate ordering", "FAIL",
                      "Time coordinate must be strictly increasing")>>, skipped)
    ELSE CoverageThenMetadata(d, min_years, allow_variable_timestep)

\* Whether check_temporal_requirements ends in an exception: the coverage
\* block raises on an empty index inside its try block (lines 56-81); the call
\* of line 83 is outside it, so an exception of the reconciler would pass on.
CheckTemporalRequirementsRaises(d, min_years, allow_variable_timestep) ==
    /\ d.time.present
    /\ ~(Len(d.time.values) >= 2 /\ ~AllPositive(Diff(d.time.values)))
    /\ IF Len(d.time.values) = 0
       THEN Uncaught(TRUE)
       ELSE CheckMissingTimesMetadataRaises(d, allow_variable_timestep)

\* ------------------------------------------------------------- the inputs
\* Strictly increasing time coordinates: the sorted subsets of the instants.
IncreasingSeqs == {SortedSeq(S) : S \in SUBSET Instants}

\* Short time coordinates in any order (repeated and decreasing steps included).
ShortSeqs ==
    UNION {[1..n -> 0..MaxUnsortedT] : n \in 0..MaxUnsortedLen}

TimeCoords == {NoCoord} \cup {Coord(s) : s \in IncreasingSeqs \cup ShortSeqs}

MissingTimes ==
    {NoMissingTimes, OtherDtype}
    \cup {Datetime64(S) : S \in {X \in SUBSET Instants : Cardinality(X) <= MaxMissing}}

\* The cutover may lie after the last instant.
CutoverAttrs == {NoAttr, Unparseable} \cup {InstantAttr(c) : c \in 0..(MaxT + 1)}

Datasets ==
    [time : TimeCoords, missing_times : MissingTimes,
     consistent_timestep_start : CutoverAttrs]

\* min_years: no requirement, or one year.
MinYears == {0, 1}

NoCall == [op |-> "none", min_years |-> 0, allow_variable_timestep |-> FALSE]

\* ------------------------------------------------- the timestep analyzer
\* Memory addresses a dataset object can be allocated at.
MaxAddr == 2

Addrs == 1..MaxAddr

\* Dataset objects created in one run.
MaxObjects == 3

\* Python's None for the object identities recorded below.
NoOid == -1

NoResult == [set |-> FALSE, value |-> <<FALSE, 0>>]

\* A free address.
Free ==
    [live |-> FALSE, oid |-> NoOid, time |-> <<>>, hashable |-> FALSE,
     first |-> NoResult]

\* A dataset object: its identity, its time coordinate, whether it can be
\* hashed, and the result of the first analysis made of it.
Object(oid, time, hashable, first) ==
    [live |-> TRUE, oid |-> oid, time |-> time, hashable |-> hashable,
     first |-> first]

\* Mutant of PositiveDiffs: non-positive differences are kept.
PositiveDiffs_KeepsAll(da_diffs) == da_diffs

\* da_diffs.where(da_diffs > np.timedelta64(0, "ns"), drop=True)
PositiveDiffs(da_diffs) == SelectSeq(da_diffs, LAMBDA x : x > 0)

\* Lines 376-383: the classification computed from the time coordinate.
ComputeTimesteps(da_time_coord) ==
    IF Len(da_time_coord) < 2
    THEN <<FALSE, 0>>
    ELSE LET da_diffs == PositiveDiffs(Diff(da_time_coord))
             unique_diff_count == Cardinality(Range(da_diffs))
         IN <<unique_diff_count > 1, unique_diff_count>>

\* An entry of the WeakKeyDictionary: a weak reference to the key object and
\* the stored tuple.
Entry(obj, result) == [ref |-> obj.oid, value |-> result]

\* Mutant of CacheGet: the lookup never finds an entry.
CacheGet_AlwaysMisses(c, obj) == NoResult

\* try: cached = _TIMESTEP_CACHE.get(ds) / except TypeError: cached = None
CacheGet(c, obj) ==
    IF ~obj.hashable THEN NoResult
    ELSE IF \E e \in c : e.ref = obj.oid
    THEN [set |-> TRUE, value |-> (CHOOSE e \in c : e.ref = obj.oid).value]
    ELSE NoResult

\* Mutant of CacheSet: the entry is stored whatever the key.
CacheSet_AnyKey(c, obj, result) ==
    {e \in c : e.ref # obj.oid} \cup {Entry(obj, result)}

\* try: _TIMESTEP_CACHE[ds] = result / except TypeError: pass
CacheSet(c, obj, result) ==
    IF ~obj.hashable THEN c
    ELSE {e \in c : e.ref # obj.oid} \cup {Entry(obj, result)}

\* Mutant of Finalize: the dictionary holds its keys strongly.
Finalize_KeepsEntry(c, obj) == c

\* The weak reference's callback: the entry goes when its key object dies.
Finalize(c, obj) == {e \in c : e.ref # obj.oid}

\* The analyzer's state before any dataset object exists.
NoHeap == [a \in Addrs |-> Free]

NoCache == {}

\* The record of the latest step. After analyze_dataset_timesteps: op is
\* "analyze", oid the object analyzed, prev the object analyzed by the step
\* before (if that was a call too), computed whether lines 376-383 ran, stored
\* whether the cache changed, again whether the object had been analyzed
\* before, reused whether the object was just built at the address where a
\* cached object had just been destroyed.
NoLast ==
    [op |-> "none", addr |-> 0, oid |-> NoOid, prev |-> NoOid,
     result |-> <<FALSE, 0>>, computed |-> FALSE, stored |-> FALSE,
     again |-> FALSE, reused |-> FALSE, raised |-> FALSE]

\* A cached object was destroyed at addr.
Collected(addr) == [NoLast EXCEPT !.op = "collect", !.addr = addr]

\* An object was built at the address a cached object was just destroyed at.
Reused(addr) == [NoLast EXCEPT !.op = "create", !.addr = addr, !.reused = TRUE]

\* ------------------------------------------------------------ the machine
Init ==
    /\ ds \in Datasets
    /\ call = NoCall
    /\ report = <<>>
    /\ metadata = NotRun
    /\ irregular = NotRun
    /\ regular = NotRun
    /\ split = NoSplit
    /\ raised = FALSE
    /\ heap = NoHeap
    /\ cache = NoCache
    /\ next_oid = 0
    /\ last = NoLast

\* check_temporal_requirements(ds, min_years, allow) called once on the dataset.
Validate(my, allow) ==
    LET res == CheckTemporalRequirements(ds, my, allow)
        exc == CheckTemporalRequirementsRaises(ds, my, allow)
    IN
    /\ call.op = "none"
    /\ call' = [op |-> "check_temporal_requirements", min_years |-> my,
                allow_variable_timestep |-> allow]
    /\ raised' = exc
    /\ report' = IF exc THEN <<>> ELSE res.report
    /\ metadata' = IF res.metadata.ran THEN Ran(res.metadata.out.report) ELSE NotRun
    /\ irregular' = res.metadata.out.irregular
    /\ regular' = res.metadata.out.regular
    /\ split' = res.metadata.out.split
    /\ UNCHANGED ds
    /\ UNCHANGED analyzerVars

\* A caller validates the dataset: check_temporal_requirements(ds, min_years, allow).
CallCheckTemporalRequirements ==
    \E my \in MinYears, allow \in BOOLEAN : Validate(my, allow)

\* The reconciler called on its own, on a dataset that meets its precondition
\* (a time coordinate that is present and strictly increasing).
CallCheckMissingTimesMetadata ==
    /\ call.op = "none"
    /\ ds.time.present
    /\ AllPositive(Diff(ds.time.values))
    /\ \E allow \in BOOLEAN :
        LET out == CheckMissingTimesMetadata(ds, ds.time.values, allow)
            exc == CheckMissingTimesMetadataRaises(ds, allow)
        IN
        /\ call' = [op |-> "_check_missing_times_metadata", min_years |-> 0,
                    allow_variable_timestep |-> allow]
        /\ raised' = exc
        /\ report' = IF exc THEN <<>> ELSE out.report
        /\ metadata' = Ran(out.report)
        /\ irregular' = out.irregular
        /\ regular' = out.regular
        /\ split' = out.split
    /\ UNCHANGED ds
    /\ UNCHANGED analyzerVars

Next ==
    \/ CallCheckTemporalRequirements
    \/ CallCheckMissingTimesMetadata

Spec == Init /\ [][Next]_vars

\* ------------------------------------------- the coverage-duration check
\* Multi-year series: the largest min_years asked for.
MaxYears == 4

CoverageYears == 0..MaxYears

\* Elapsed whole days at and just after each multiple of 365 days.
CoverageDays == {0} \cup {365 * y + e : y \in 1..MaxYears, e \in 0..2}

\* Elapsed time in ticks: whole days plus a part of a day.
CoverageSpans == {d * TicksPerDay + r : d \in CoverageDays, r \in 0..(TicksPerDay - 1)}

\* A single instant, or a first and a last instant a span apart.
CoverageTimeCoords ==
    {Coord(<<t0>>) : t0 \in 0..1}
    \cup {Coord(<<t0, t0 + span>>) : t0 \in 0..1, span \in CoverageSpans \ {0}}

CoverageDatasets ==
    [time : CoverageTimeCoords, missing_times : {NoMissingTimes, Datetime64({})},
     consistent_timestep_start : {NoAttr}]

InitCoverage ==
    /\ ds \in CoverageDatasets
    /\ call = NoCall
    /\ report = <<>>
    /\ metadata = NotRun
    /\ irregular = NotRun
    /\ regular = NotRun
    /\ split = NoSplit
    /\ raised = FALSE
    /\ heap = NoHeap
    /\ cache = NoCache
    /\ next_oid = 0
    /\ last = NoLast

\* check_temporal_requirements with a requirement of up to MaxYears years.
CallCheckTemporalRequirementsYears ==
    \E my \in CoverageYears, allow \in BOOLEAN : Validate(my, allow)

NextCoverage == CallCheckTemporalRequirementsYears

SpecCoverage == InitCoverage /\ [][NextCoverage]_vars

\* --------------------------------------- the same dataset, more declared
\* Datasets the reconciler takes to its segment checks with a declared set: a
\* strictly increasing time coordinate and a datetime-typed missing_times
\* variable disjoint from it.
DeclaredDatasets ==
    {d \in Datasets :
        /\ d.time.present
        /\ AllPositive(Diff(d.time.values))
        /\ d.missing_times.kind = "datetime64"
        /\ Intersect1d(d.time.values, d.missing_times.values) = {}}

InitDeclared ==
    /\ ds \in DeclaredDatasets
    /\ call = NoCall
    /\ report = <<>>
    /\ metadata = NotRun
    /\ irregular = NotRun
    /\ regular = NotRun
    /\ split = NoSplit
    /\ raised = FALSE
    /\ heap = NoHeap
    /\ cache = NoCache
    /\ next_oid = 0
    /\ last = NoLast

\* The reconciler is called again on a dataset that differs only in one more
\* declared instant, not of the time coordinate, with the same policy flag.
\* report keeps the report of the first call, declared the first declared set.
DeclareMoreAndRecheck ==
    /\ call.op \in {"_check_missing_times_metadata", "recheck"}
    /\ ~raised
    /\ \E m \in Instants \ (Range(ds.time.values) \cup ds.missing_times.values) :
        LET d == [ds EXCEPT !.missing_times =
                      Datetime64(ds.missing_times.values \cup {m})]
            allow == call.allow_variable_timestep
            out == CheckMissingTimesMetadata(d, d.time.values, allow)
        IN
        /\ ds' = d
        /\ call' = [op |-> "recheck", min_years |-> 0,
                    allow_variable_timestep |-> allow,
                    declared |-> IF call.op = "recheck" THEN call.declared
                                 ELSE ds.missing_times.values]
        /\ raised' = CheckMissingTimesMetadataRaises(d, allow)
        /\ metadata' = Ran(out.report)
        /\ irregular' = out.irregular
        /\ regular' = out.regular
        /\ split' = out.split
    /\ UNCHANGED report
    /\ UNCHANGED analyzerVars

NextDeclared ==
    \/ CallCheckMissingTimesMetadata
    \/ DeclareMoreAndRecheck

SpecDeclared == InitDeclared /\ [][NextDeclared]_vars

\* ------------------------------------------ dataset objects and the cache
\* The validation state, untouched by the analyzer.
NoDataset ==
    [time |-> NoCoord, missing_times |-> NoMissingTimes,
     consistent_timestep_start |-> NoAttr]

NotValidating ==
    /\ ds = NoDataset
    /\ call = NoCall
    /\ report = <<>>
    /\ metadata = NotRun
    /\ irregular = NotRun
    /\ regular = NotRun
    /\ split = NoSplit
    /\ raised = FALSE

\* Time coordinates given to the objects: one interval, or two.
CacheTimes == {<<0, 1>>, <<0, 1, 3>>}

\* A dataset object is built at a free address.
Create(addr, time, hashable) ==
    /\ ~heap[addr].live
    /\ next_oid < MaxObjects
    /\ heap' = [heap EXCEPT ![addr] = Object(next_oid, time, hashable, NoResult)]
    /\ next_oid' = next_oid + 1
    /\ last' = IF last.op = "collect" /\ last.addr = addr THEN Reused(addr) ELSE NoLast
    /\ UNCHANGED cache
    /\ UNCHANGED temporalVars

\* analyze_dataset_timesteps(ds) on the object at addr (lines 369-389).
Analyze(addr) ==
    /\ heap[addr].live
    /\ LET obj == heap[addr]
           cached == CacheGet(cache, obj)
           result == IF cached.set THEN cached.value ELSE ComputeTimesteps(obj.time)
           stored == IF cached.set THEN cache ELSE CacheSet(cache, obj, result)
       IN
       /\ cache' = stored
       /\ heap' = [heap EXCEPT ![addr].first =
                       IF obj.first.set THEN obj.first
                       ELSE [set |-> TRUE, value |-> result]]
       /\ last' = [op |-> "analyze", addr |-> addr, oid |-> obj.oid,
                   prev |-> IF last.op = "analyze" THEN last.oid ELSE NoOid,
                   result |-> result, computed |-> ~cached.set,
                   stored |-> stored # cache, again |-> obj.first.set,
                   reused |-> last.op = "create" /\ last.addr = addr,
                   raised |-> Uncaught(~obj.hashable)]
    /\ UNCHANGED next_oid
    /\ UNCHANGED temporalVars

\* The time coordinate of a live object is replaced in place.
SetTime(addr, time) ==
    /\ heap[addr].live
    /\ heap[addr].time # time
    /\ heap' = [heap EXCEPT ![addr].time = time]
    /\ last' = NoLast
    /\ UNCHANGED <<cache, next_oid>>
    /\ UNCHANGED temporalVars

\* The last reference to an object goes: it is destroyed and its address freed.
Collect(addr) ==
    /\ heap[addr].live
    /\ LET obj == heap[addr]
       IN /\ cache' = Finalize(cache, obj)
          /\ heap' = [heap EXCEPT ![addr] = Free]
          /\ last' = IF \E e \in cache : e.ref = obj.oid
                     THEN Collected(addr) ELSE NoLast
    /\ UNCHANGED next_oid
    /\ UNCHANGED temporalVars

InitCache ==
    /\ NotValidating
    /\ heap = NoHeap
    /\ cache = NoCache
    /\ next_oid = 0
    /\ last = NoLast

CreateDataset == \E addr \in Addrs, time \in CacheTimes, hashable \in BOOLEAN :
                    Create(addr, time, hashable)

CallAnalyzeDatasetTimesteps == \E addr \in Addrs : Analyze(addr)

AssignTime == \E addr \in Addrs, time \in CacheTimes : SetTime(addr, time)

CollectDataset == \E addr \in Addrs : Collect(addr)

NextCache ==
    \/ CreateDataset
    \/ CallAnalyzeDatasetTimesteps
    \/ AssignTime
    \/ CollectDataset

SpecCache == InitCache /\ [][NextCache]_vars

\* ---------------------------------- the classification on any time series
\* One dataset object, hashable or not, with any of the time coordinates of
\* the validation inputs.
InitAnalyze ==
    /\ NotValidating
    /\ \E s \in IncreasingSeqs \cup ShortSeqs, hashable \in BOOLEAN :
          heap = [NoHeap EXCEPT ![1] = Object(0, s, hashable, NoResult)]
    /\ cache = NoCache
    /\ next_oid = 1
    /\ last = NoLast

NextAnalyze == CallAnalyzeDatasetTimesteps

SpecAnalyze == InitAnalyze /\ [][NextAnalyze]_vars

\* ------------------------------------------------- vocabulary of the claims
\* These definitions state the claims in terms of the dataset alone; they do
\* not use the operators that model the code.
T == ds.time.values

Temporal == call.op = "check_temporal_requirements"

Allow == call.allow_variable_timestep

StrictlyIncreasing(s) == \A i \in 1..(Len(s) - 1) : s[i] < s[i + 1]

HasBackwardStep(s) == \E i \in 1..(Len(s) - 1) : s[i + 1] - s[i] <= 0

IntervalsOf(s) == {s[i + 1] - s[i] : i \in 1..(Len(s) - 1)}

\* More than one distinct positive interval.
VariableTimestep(s) == Cardinality({d \in IntervalsOf(s) : d > 0}) > 1

NonIncreasingDiffs(s) ==
    \A i \in 1..(Len(s) - 2) : s[i + 2] - s[i + 1] <= s[i + 1] - s[i]

\* The grid of a strictly increasing segment with two or more instants:
\* first + k*m up to last, m the minimum consecutive interval.
GridOf(s) ==
    LET m == CHOOSE d \in IntervalsOf(s) : \A e \in IntervalsOf(s) : d <= e
    IN {g \in s[1]..s[Len(s)] : (g - s[1]) % m = 0}

GapsOf(s) == GridOf(s) \ {s[i] : i \in 1..Len(s)}

MissingDeclared == ds.missing_times.kind = "datetime64"

MissingAbsent == ds.missing_times.kind = "none"

Declared == IF MissingDeclared THEN ds.missing_times.values ELSE {}

Overlapping == MissingDeclared /\ \E i \in 1..Len(T) : T[i] \in Declared

\* A cutover is in effect: the policy allows it and the attribute is an instant.
CutoverInEffect == Allow /\ ds.consistent_timestep_start.kind = "instant"

Cutover == ds.consistent_timestep_start.at

\* The instants before the cutover and those at or after it (T increasing).
PrefixLen == Cardinality({i \in 1..Len(T) : T[i] < Cutover})

Prefix == SubSeq(T, 1, PrefixLen)

Suffix == SubSeq(T, PrefixLen + 1, Len(T))

ContainsFail(r) == \E i \in 1..Len(r) : r[i].status = "FAIL"

Has(r, status, detail) ==
    \E i \in 1..Len(r) : r[i].status = status /\ r[i].detail = detail

IrregularFail == "Missing 'missing_times' variable for irregular period"

IrregularWarning ==
    "Irregular timesteps do not monotonically decrease and missing_times are not provided to resolve them"

\* The reconciler got past its short-circuiting checks and ran the segment checks.
SegmentsChecked == metadata.ran /\ split.reached

\* ------------------------------------------------------------------ claims
\* C1: a time coordinate with two or more instants and a repeated or
\* decreasing step makes check_temporal_requirements return exactly one
\* record, the FAIL "Time coordinate ordering", whatever min_years, the policy
\* flag, the missing_times variable and the cutover attribute are.
C1_NonMonotonicFailsOrdering ==
    (Temporal /\ ds.time.present /\ Len(T) >= 2 /\ HasBackwardStep(T))
        => /\ Len(report) = 1
           /\ report[1].name = "Time coordinate ordering"
           /\ report[1].status = "FAIL"
           /\ ~metadata.ran

C1_Witness ==
    /\ Temporal /\ ds.time.present
    /\ Len(T) = 3 /\ T[1] = T[2] /\ T[3] > T[2]
    /\ MissingDeclared /\ ds.consistent_timestep_start.kind = "instant"
    /\ Allow /\ call.min_years = 1
    /\ report = <<Rec("Time coordinate ordering", "FAIL",
                      "Time coordinate must be strictly increasing")>>

\* C2: when an instant of the declared missing_times set is also an instant of
\* the time coordinate, the report of check_temporal_requirements and that of
\* the reconciler contain at least one FAIL, in every other circumstance.
C2_OverlapFails ==
    (call.op # "none" /\ ds.time.present /\ Overlapping) => ContainsFail(report)

C2_Witness ==
    /\ Temporal /\ call.min_years = 0 /\ StrictlyIncreasing(T) /\ Len(T) >= 3
    /\ Cardinality(IntervalsOf(T)) = 1
    /\ Overlapping
    /\ report[1].status = "PASS"
    /\ Len(report) = 2
    /\ report[2] = Rec("Missing times metadata", "FAIL",
                       "'missing_times' values must not appear in the main time coordinate")

\* C3 as stated: a strictly increasing series with two or more distinct
\* intervals and no missing_times variable makes the reconciler return a FAIL
\* for every policy flag and every value of the cutover attribute.
C3_Original ==
    (metadata.ran /\ StrictlyIncreasing(T) /\ VariableTimestep(T) /\ MissingAbsent)
        => ContainsFail(metadata.records)

\* C3, amended: the same series makes the reconciler return a FAIL whenever
\* no cutover is in effect (the policy flag is false, or the attribute is
\* absent) and also when the attribute is unparseable under an allowing policy.
C3_VariableWithoutMissingFails ==
    (metadata.ran /\ StrictlyIncreasing(T) /\ VariableTimestep(T) /\ MissingAbsent
     /\ ~CutoverInEffect)
        => ContainsFail(metadata.records)

C3_Witness ==
    /\ call.op = "_check_missing_times_metadata" /\ Allow
    /\ ds.consistent_timestep_start.kind = "none"
    /\ T = <<0, 1, 3, 4>> /\ MissingAbsent
    /\ metadata.records = <<Rec("Missing times metadata", "FAIL",
                                "Missing 'missing_times' variable for regular period")>>

\* C4 as stated: a strictly increasing series whose intervals are all equal,
\* without a missing_times variable, gets no FAIL from the reconciler for every
\* policy flag and every value of the cutover attribute.
C4_Original ==
    (metadata.ran /\ StrictlyIncreasing(T) /\ Cardinality(IntervalsOf(T)) <= 1
     /\ MissingAbsent)
        => ~ContainsFail(metadata.records)

\* C4, amended: the same series gets no FAIL from the reconciler for every
\* policy flag and every cutover attribute that is absent or parses to an
\* instant, and for an unparseable attribute when the policy flag is false.
C4_RegularWithoutMissingPasses ==
    (metadata.ran /\ StrictlyIncreasing(T) /\ Cardinality(IntervalsOf(T)) <= 1
     /\ MissingAbsent
     /\ ~(Allow /\ ds.consistent_timestep_start.kind = "unparseable"))
        => ~ContainsFail(metadata.records)

C4_Witness ==
    /\ metadata.ran /\ CutoverInEffect /\ MissingAbsent
    /\ Len(T) >= 5 /\ StrictlyIncreasing(T) /\ Cardinality(IntervalsOf(T)) = 1
    /\ PrefixLen >= 3 /\ Len(Suffix) >= 2
    /\ irregular.ran /\ regular.ran
    /\ metadata.records = <<Rec("Missing times metadata", "PASS",
                                "Regular timesteps detected; 'missing_times' not required")>>

\* C5: on a regular segment with two or more instants and a declared set, the
\* regular-segment check emits exactly one record, FAIL iff some instant of
\* the segment's minimum-interval grid is neither in the segment nor declared,
\* PASS otherwise.
C5_RegularSegmentVerdict ==
    (SegmentsChecked /\ MissingDeclared /\ Len(split.da_time_regular) >= 2)
        => /\ regular.ran
           /\ Len(regular.records) = 1
           /\ regular.records[1].status \in {"FAIL", "PASS"}
           /\ regular.records[1].status = "FAIL"
                <=> \E g \in GapsOf(split.da_time_regular) : g \notin Declared

C5_Witness ==
    /\ SegmentsChecked /\ MissingDeclared /\ CutoverInEffect
    /\ Len(Prefix) >= 1 /\ Len(Suffix) >= 2 /\ split.da_time_regular = Suffix
    /\ Cardinality(GapsOf(Suffix)) = 2
    /\ GapsOf(Suffix) \subseteq Declared
    /\ regular.records = <<Rec("Missing times metadata", "PASS",
                               "All inferred missing timestamps are listed in 'missing_times'")>>

C7_AttributeIgnoredWhenForbidden ==
    (metadata.ran /\ ~Allow)
        => /\ \A a \in CutoverAttrs :
                CheckMissingTimesMetadata(
                    [ds EXCEPT !.consistent_timestep_start = a], T, FALSE).report
                = metadata.records
           /\ ~Has(metadata.records, "FAIL", "Failed to parse 'consistent_timestep_start'")
           /\ ~irregular.ran
           /\ split.reached => (~split.cutover /\ split.da_time_regular = T)

C7_Witness ==
    /\ metadata.ran /\ ~Allow
    /\ ds.consistent_timestep_start.kind = "unparseable"
    /\ Len(T) >= 4 /\ VariableTimestep(T) /\ MissingDeclared
    /\ regular.ran /\ split.da_time_regular = T
    /\ ContainsFail(metadata.records)

\* C8: with a cutover in effect and an irregular prefix whose consecutive
\* differences never grow, the irregular-segment check contributes no record,
\* with or without a missing_times variable and whatever gaps the prefix has.
C8_NonIncreasingPrefixExempt ==
    (metadata.ran /\ StrictlyIncreasing(T) /\ CutoverInEffect
     /\ NonIncreasingDiffs(Prefix))
        => /\ irregular.records = <<>>
           /\ ~Has(metadata.records, "FAIL", IrregularFail)
           /\ ~Has(metadata.records, "WARNING", IrregularWarning)

C8_Witness ==
    /\ SegmentsChecked /\ CutoverInEffect /\ irregular.ran
    /\ Len(Prefix) >= 3 /\ NonIncreasingDiffs(Prefix)
    /\ GapsOf(Prefix) # {} /\ GapsOf(Prefix) \cap Declared = {}
    /\ Len(Suffix) >= 2
    /\ irregular.records = <<>>

\* The last instant of a segment's grid, and the declared instants of the
\* irregular period that lie within the grid's span.
GridEnd(s) == CHOOSE g \in GridOf(s) : \A h \in GridOf(s) : h <= g

DeclaredInSpan(s) ==
    {m \in Declared : m < Cutover /\ m >= s[1] /\ m <= GridEnd(s)}

\* The irregular-segment check ran on a prefix whose differences grow
\* somewhere, with a missing_times set declared.
GrowingPrefixWithDeclaredSet ==
    /\ SegmentsChecked /\ CutoverInEffect /\ MissingDeclared
    /\ Len(Prefix) >= 3 /\ ~NonIncreasingDiffs(Prefix)

C10_GrowingPrefixWithoutMissingFails ==
    (metadata.ran /\ StrictlyIncreasing(T) /\ CutoverInEffect /\ MissingAbsent
     /\ Len(Prefix) >= 3 /\ ~NonIncreasingDiffs(Prefix))
        => /\ irregular.ran
           /\ irregular.records = <<Rec("Missing times metadata", "FAIL", IrregularFail)>>
           /\ metadata.records[1] = Rec("Missing times metadata", "FAIL", IrregularFail)
           /\ ~Has(metadata.records, "WARNING", IrregularWarning)

C10_Witness ==
    /\ metadata.ran /\ CutoverInEffect /\ MissingAbsent
    /\ Prefix = <<0, 1, 3>> /\ Suffix = <<4, 5>>
    /\ metadata.records = <<Rec("Missing times metadata", "FAIL", IrregularFail)>>
    /\ regular.ran /\ regular.records = <<>>

\* Messages of the short-circuiting FAILs of the reconciler.
ParseFail == "Failed to parse 'consistent_timestep_start'"

DtypeFail == "'missing_times' must contain datetime64 values"

OverlapFail == "'missing_times' values must not appear in the main time coordinate"

AttrUnparseable == ds.consistent_timestep_start.kind = "unparseable"

MissingOtherDtype == ds.missing_times.kind = "other"

C12_StructuralFailureShortCircuits ==
    /\ (Temporal /\ ~ds.time.present)
         => report = <<Rec("Time coordinate presence", "FAIL",
                           "Missing 'time' coordinate")>>
    /\ (metadata.ran /\ ((Allow /\ AttrUnparseable) \/ MissingOtherDtype \/ Overlapping))
         => /\ Len(metadata.records) = 1
            /\ metadata.records[1].status = "FAIL"
            /\ metadata.records[1].detail \in {ParseFail, DtypeFail, OverlapFail}
            /\ ~irregular.ran /\ ~regular.ran

C12_Witness ==
    /\ call.op = "_check_missing_times_metadata" /\ CutoverInEffect
    /\ Overlapping
    /\ Len(Prefix) >= 3 /\ ~NonIncreasingDiffs(Prefix) /\ Len(Suffix) >= 1
    /\ metadata.records = <<Rec("Missing times metadata", "FAIL", OverlapFail)>>
    /\ ~irregular.ran /\ ~regular.ran

\* C14: when the coverage analysis raises (a time coordinate without
\* instants), check_temporal_requirements returns exactly the FAIL "Temporal
\* coverage analysis": the exception does not leave it and the reconciler is
\* not called.
C14_CoverageExceptionCaught ==
    (Temporal /\ ds.time.present /\ Len(T) = 0)
        => /\ ~raised
           /\ report = <<Rec("Temporal coverage analysis", "FAIL",
                             "Failed to analyze temporal coverage")>>
           /\ ~metadata.ran /\ ~irregular.ran /\ ~regular.ran

C14_Witness ==
    /\ Temporal /\ ds.time.present /\ Len(T) = 0
    /\ call.min_years = 1 /\ Allow /\ AttrUnparseable /\ MissingDeclared
    /\ Len(report) = 1 /\ report[1].name = "Temporal coverage analysis"

\* The segment the regular-segment check is given: the instants at or after
\* the cutover, or the whole series.
RegularSegment == IF CutoverInEffect THEN Suffix ELSE T

\* C19: on a regular segment with fewer than two instants the regular-segment
\* check emits exactly one record, a WARNING, whatever missing_times holds.
C19_ShortRegularSegmentWarns ==
    (SegmentsChecked /\ Len(RegularSegment) < 2)
        => /\ regular.ran
           /\ regular.records = <<Rec("Missing times metadata", "WARNING",
                                      "Not enough regular timestamps to infer missing times")>>

C19_Witness ==
    /\ SegmentsChecked /\ CutoverInEffect
    /\ Len(T) >= 3 /\ Len(Suffix) = 1
    /\ MissingDeclared /\ \E m \in Declared : m > Cutover
    /\ Len(regular.records) = 1 /\ regular.records[1].status = "WARNING"

\* The FAIL the reconciler reports when the checks are made in a given order.
FirstFailing(order) ==
    LET fails(step) == CASE step = "parse" -> Allow /\ AttrUnparseable
                         [] step = "dtype" -> MissingOtherDtype
                         [] step = "overlap" -> Overlapping
        detail(step) == CASE step = "parse" -> ParseFail
                          [] step = "dtype" -> DtypeFail
                          [] step = "overlap" -> OverlapFail
        first == CHOOSE i \in 1..Len(order) :
                    fails(order[i]) /\ \A j \in 1..(i - 1) : ~fails(order[j])
    IN detail(order[first])

SomeStructuralFailure == (Allow /\ AttrUnparseable) \/ MissingOtherDtype \/ Overlapping

\* C20 as stated: the short-circuiting checks come in the order datetime type
\* check, disjointness check, cutover parsing, and the single FAIL reported is
\* that of the earliest failing one.
C20_Original ==
    (metadata.ran /\ SomeStructuralFailure)
        => metadata.records =
             <<Rec("Missing times metadata", "FAIL",
                   FirstFailing(<<"dtype", "overlap", "parse">>))>>

\* C20, amended: the short-circuiting checks come in the order cutover parsing
\* (under an allowing policy), datetime type check, disjointness check, and the
\* single FAIL reported is that of the earliest failing one: an unparseable
\* cutover attribute is reported in preference to a non-datetime or
\* overlapping missing_times set.
C20_ParseThenDtypeThenOverlap ==
    (metadata.ran /\ SomeStructuralFailure)
        => metadata.records =
             <<Rec("Missing times metadata", "FAIL",
                   FirstFailing(<<"parse", "dtype", "overlap">>))>>

C20_Witness ==
    /\ metadata.ran /\ Allow /\ AttrUnparseable /\ Overlapping
    /\ Len(T) >= 2
    /\ metadata.records = <<Rec("Missing times metadata", "FAIL", ParseFail)>>

\* Whole days elapsed between the first and the last instant (floor).
ElapsedDays ==
    LET elapsed == T[Len(T)] - T[1]
    IN CHOOSE d \in 0..elapsed :
          d * TicksPerDay <= elapsed /\ elapsed < (d + 1) * TicksPerDay

\* C13: for a non-empty strictly increasing series the coverage record is PASS
\* iff 4 * days >= 1461 * min_years, days being the whole days elapsed between
\* the first and the last instant, and FAIL otherwise; with min_years = 0 it is
\* always PASS.
C13_CoverageThreshold ==
    (Temporal /\ ds.time.present /\ Len(T) >= 1 /\ StrictlyIncreasing(T))
        => /\ Len(report) >= 1
           /\ report[1].name = "Minimum 3-year coverage"
           /\ report[1].status \in {"PASS", "FAIL"}
           /\ report[1].status = "PASS" <=> 4 * ElapsedDays >= 1461 * call.min_years
           /\ call.min_years = 0 => report[1].status = "PASS"

C13_Witness ==
    /\ Temporal /\ ds.time.present /\ Len(T) = 2
    /\ call.min_years = 1
    /\ T[2] - T[1] = 365 * TicksPerDay + 1
    /\ report[1] = Rec("Minimum 3-year coverage", "FAIL", "Temporal coverage")

\* ------------------------------------ claims about the composed report
NotRequired == "Regular timesteps detected; 'missing_times' not required"

NotEnough == "Not enough regular timestamps to infer missing times"

ContainsWarning(r) == \E i \in 1..Len(r) : r[i].status = "WARNING"

\* The records before the last one.
Front(r) == SubSeq(r, 1, Len(r) - 1)

\* C21: the reconciler's report holds the PASS "'missing_times' not required"
\* iff there is no missing_times variable and the records before it hold no
\* FAIL; when present it is the last record and occurs once; it is never
\* present when a missing_times variable exists.
C21_NotRequiredIffAbsentAndNoFail ==
    metadata.ran
        => LET r == metadata.records
               closing == Len(r) >= 1 /\ r[Len(r)] = Rec("Missing times metadata", "PASS", NotRequired)
               before == IF closing THEN Front(r) ELSE r
           IN /\ closing <=> (MissingAbsent /\ ~ContainsFail(before))
              /\ ~Has(before, "PASS", NotRequired)
              /\ ~MissingAbsent => ~Has(r, "PASS", NotRequired)

C21_Witness ==
    /\ metadata.ran /\ MissingAbsent /\ CutoverInEffect
    /\ Len(Prefix) >= 3 /\ Len(Suffix) = 1
    /\ metadata.records = <<Rec("Missing times metadata", "WARNING", NotEnough),
                            Rec("Missing times metadata", "PASS", NotRequired)>>

\* C22: with a cutover c in effect the irregular check is given the instants
\* before c and the regular check those at or after c (an instant equal to c
\* goes to the regular segment), order kept and every instant in exactly one
\* segment; the declared instants are split by the same rule. Without a
\* cutover the regular check is given the whole series and the whole declared
\* set, and no irregular check runs.
C22_ExactPartition ==
    SegmentsChecked
        => IF CutoverInEffect
           THEN /\ split.cutover /\ split.t_regular_start = Cutover
                /\ irregular.ran /\ regular.ran
                /\ split.da_time_irregular = Prefix
                /\ split.da_time_regular = Suffix
                /\ split.da_time_irregular \o split.da_time_regular = T
                /\ \A i \in 1..Len(split.da_time_irregular) :
                      split.da_time_irregular[i] < Cutover
                /\ \A i \in 1..Len(split.da_time_regular) :
                      split.da_time_regular[i] >= Cutover
                /\ MissingDeclared
                     => /\ ~split.missing_values_irregular.none
                        /\ ~split.missing_values_regular.none
                        /\ split.missing_values_irregular.values
                             = {m \in Declared : m < Cutover}
                        /\ split.missing_values_regular.values
                             = {m \in Declared : m >= Cutover}
           ELSE /\ ~split.cutover
                /\ ~irregular.ran /\ regular.ran
                /\ split.da_time_regular = T
                /\ MissingDeclared
                     => /\ ~split.missing_values_regular.none
                        /\ split.missing_values_regular.values = Declared

C22_Witness ==
    /\ SegmentsChecked /\ CutoverInEffect
    /\ Len(Prefix) >= 2 /\ Len(Suffix) >= 2 /\ Suffix[1] = Cutover
    /\ split.da_time_regular[1] = Cutover
    /\ \E m \in Declared : m < Cutover
    /\ \E m \in Declared : m > Cutover
    /\ Cardinality(split.missing_values_irregular.values) = 1
    /\ Cardinality(split.missing_values_regular.values) = 1

\* C23: when the time coordinate is present, strictly increasing and not
\* empty, the report of check_temporal_requirements is the coverage record
\* followed by the reconciler's records, which are the irregular segment's
\* records, then the regular segment's, then the closing PASS if any; a
\* coverage FAIL does not stop the reconciler from running.
C23_CoverageThenReconciler ==
    (Temporal /\ ds.time.present /\ Len(T) >= 1 /\ StrictlyIncreasing(T))
        => /\ metadata.ran
           /\ Len(report) = 1 + Len(metadata.records)
           /\ report[1].name = "Minimum 3-year coverage"
           /\ SubSeq(report, 2, Len(report)) = metadata.records
           /\ SegmentsChecked
                => LET segments == irregular.records \o regular.records
                   IN \/ metadata.records = segments
                      \/ metadata.records
                           = Append(segments, Rec("Missing times metadata", "PASS", NotRequired))

C23_Witness ==
    /\ Temporal /\ call.min_years = 1
    /\ Len(report) = 3
    /\ report[1] = Rec("Minimum 3-year coverage", "FAIL", "Temporal coverage")
    /\ report[2] = Rec("Missing times metadata", "WARNING", IrregularWarning)
    /\ Len(irregular.records) = 1 /\ Len(regular.records) = 1
    /\ report[3] = regular.records[1] /\ report[3].status = "PASS"

\* C24: under an allowing policy, with the cutover later than the last instant
\* and a datetime-typed missing_times set (empty or not) disjoint from the
\* series, the reconciler emits no FAIL whatever the gaps of the series: the
\* irregular check emits at most a WARNING and the regular check, given no
\* instant, the WARNING "not enough".
C24_CutoverAfterSeriesNeverFails ==
    (metadata.ran /\ CutoverInEffect /\ Len(T) >= 1 /\ Cutover > T[Len(T)]
     /\ MissingDeclared /\ ~Overlapping)
        => /\ ~ContainsFail(metadata.records)
           /\ irregular.ran
           /\ irregular.records \in {<<>>, <<Rec("Missing times metadata", "WARNING",
                                                 IrregularWarning)>>}
           /\ regular.records = <<Rec("Missing times metadata", "WARNING", NotEnough)>>

C24_Witness ==
    /\ metadata.ran /\ CutoverInEffect /\ Len(T) >= 3 /\ Cutover > T[Len(T)]
    /\ MissingDeclared /\ Declared = {}
    /\ ~NonIncreasingDiffs(T) /\ VariableTimestep(T)
    /\ metadata.records = <<Rec("Missing times metadata", "WARNING", IrregularWarning),
                            Rec("Missing times metadata", "WARNING", NotEnough)>>

\* The reconciler was called on the dataset with fewer declared instants
\* (report) and then with the declared set of ds (metadata.records).
Rechecked == call.op = "recheck"

\* C25: the reconciler's verdict is monotone in the declared set. For two
\* datasets that differ only in their declared sets D and D', D a subset of D',
\* both datetime-typed and disjoint from the time coordinate: if the report
\* with D has no FAIL, the report with D' has none, and likewise for WARNING;
\* so a declared instant that is no inferred gap never causes a FAIL.
C25_MonotoneInDeclaredSet ==
    Rechecked
        => /\ call.declared \subseteq Declared /\ call.declared # Declared
           /\ ~Overlapping
           /\ ~ContainsFail(report) => ~ContainsFail(metadata.records)
           /\ ~ContainsWarning(report) => ~ContainsWarning(metadata.records)

C25_Witness ==
    /\ Rechecked /\ ~CutoverInEffect
    /\ Len(T) >= 3 /\ GapsOf(T) # {} /\ GapsOf(T) \subseteq call.declared
    /\ \E m \in Declared \ call.declared : m > T[Len(T)]
    /\ \E m \in Declared \ call.declared : m < T[Len(T)] /\ m \notin GapsOf(T)
    /\ ~ContainsFail(report) /\ ~ContainsFail(metadata.records)
    /\ Len(metadata.records) = 1 /\ metadata.records[1].status = "PASS"

\* The case of C26: a cutover in effect, a prefix whose differences do not
\* grow, a suffix of two or more instants one constant interval apart.
SeparatelyRegular ==
    /\ metadata.ran /\ CutoverInEffect
    /\ NonIncreasingDiffs(Prefix)
    /\ Len(Suffix) >= 2 /\ Cardinality(IntervalsOf(Suffix)) = 1

\* C26 as stated: in that case the reconciler emits no FAIL and no WARNING,
\* whatever the distance between the prefix and the suffix and whether or not
\* a missing_times variable is declared.
C26_Original ==
    SeparatelyRegular
        => ~ContainsFail(metadata.records) /\ ~ContainsWarning(metadata.records)

\* C26, amended: in that case, when the missing_times variable is absent or
\* is datetime-typed and disjoint from the time coordinate, the reconciler
\* emits no FAIL and no WARNING, whatever the distance between the last
\* instant of the prefix and the first of the suffix.
C26_NoCheckSpansCutover ==
    (SeparatelyRegular /\ (MissingAbsent \/ (MissingDeclared /\ ~Overlapping)))
        => ~ContainsFail(metadata.records) /\ ~ContainsWarning(metadata.records)

C26_Witness ==
    /\ SeparatelyRegular /\ MissingDeclared /\ ~Overlapping
    /\ Len(Prefix) >= 2
    /\ Suffix[1] > Cutover
    /\ Suffix[1] - Prefix[Len(Prefix)] > Suffix[2] - Suffix[1]
    /\ Suffix[1] - Prefix[Len(Prefix)] > Prefix[2] - Prefix[1]
    /\ ~ContainsFail(metadata.records) /\ ~ContainsWarning(metadata.records)
    /\ Len(metadata.records) = 1

\* ------------------------------------------ claims about the analyzer
\* analyze_dataset_timesteps was the latest step.
Called == last.op = "analyze"

\* The dataset object the latest call was made on.
Analyzed == heap[last.addr]

\* The classification of a time series: no interval with fewer than two
\* instants, otherwise the number n of distinct strictly positive consecutive
\* differences, and whether n > 1.
Classification(s) ==
    IF Len(s) < 2 THEN <<FALSE, 0>>
    ELSE LET n == Cardinality({d \in {s[i + 1] - s[i] : i \in 1..(Len(s) - 1)} : d > 0})
         IN <<n > 1, n>>

\* C15: a call on a dataset with no cached entry (the first call on the
\* object, or an object that cannot be a key) returns (FALSE, 0) for fewer
\* than two instants and otherwise (n > 1, n), n counting the distinct
\* strictly positive consecutive differences.
C15_FreshClassification ==
    (Called /\ (~last.again \/ ~Analyzed.hashable))
        => /\ last.result = Classification(Analyzed.time)
           /\ last.result[1] <=> last.result[2] > 1

C15_Witness ==
    /\ Called /\ ~last.again
    /\ Len(Analyzed.time) = 3
    /\ \E i \in 1..2 : Analyzed.time[i + 1] - Analyzed.time[i] <= 0
    /\ \E i \in 1..2 : Analyzed.time[i + 1] - Analyzed.time[i] > 0
    /\ last.result = <<FALSE, 1>>

\* C16: a call on a hashable dataset object that was analyzed before returns
\* the tuple of the first call without recomputing, also right after a call
\* on another dataset and when the time coordinate was changed in between.
C16_LaterCallsReturnFirstTuple ==
    (Called /\ last.again /\ Analyzed.hashable)
        => /\ ~last.computed
           /\ Analyzed.first.set
           /\ last.result = Analyzed.first.value

C16_Witness ==
    /\ Called /\ last.again /\ Analyzed.hashable
    /\ last.prev # NoOid /\ last.prev # last.oid
    /\ last.result # Classification(Analyzed.time)
    /\ last.result = Analyzed.first.value

\* C17: the cache holds entries only for live dataset objects that were
\* analyzed, at most one for each; no entry is left for a destroyed object;
\* and a call on an object never analyzed before, an object built at a reused
\* address included, computes its own tuple instead of returning one stored
\* for another object.
C17_CacheTiedToLiveObjects ==
    /\ \A e \in cache :
          \E a \in Addrs :
             /\ heap[a].live /\ heap[a].oid = e.ref
             /\ heap[a].first.set /\ heap[a].first.value = e.value
    /\ \A e1, e2 \in cache : e1.ref = e2.ref => e1 = e2
    /\ \A a, b \in Addrs : (heap[a].live /\ heap[b].live /\ a # b) => heap[a].oid # heap[b].oid
    /\ (last.op = "collect") => ~heap[last.addr].live
    /\ (Called /\ ~last.again)
          => last.computed /\ last.result = Classification(Analyzed.time)
    /\ (Called /\ ~last.computed)
          => last.again /\ last.result = Analyzed.first.value

C17_Witness ==
    /\ Called /\ last.reused /\ Analyzed.hashable
    /\ last.computed /\ last.result = Classification(Analyzed.time)
    /\ \E a \in Addrs \ {last.addr} : heap[a].live /\ \E e \in cache : e.ref = heap[a].oid
    /\ Cardinality(cache) = 2

\* C18: a call on a dataset object that cannot be a cache key raises no
\* error, leaves the cache as it was, and returns the classification of the
\* object's time coordinate as it is at the call.
C18_UnhashableSkipsCache ==
    (Called /\ ~Analyzed.hashable)
        => /\ ~last.raised
           /\ ~last.stored
           /\ \A e \in cache : e.ref # last.oid
           /\ last.result = Classification(Analyzed.time)

C18_Witness ==
    /\ Called /\ ~Analyzed.hashable /\ ~last.raised
    /\ last.again /\ last.result # Analyzed.first.value
    /\ cache # {}
    /\ last.result = Classification(Analyzed.time)

====
